---- MODULE Spec2Model ----
(***************************************************************************)
(* The transcription session controller of whisper-web (the useTranscriber *)
(* hook), the worker it talks to, and the requests it posts.               *)
(*                                                                         *)
(* An optional value (T | undefined, T | null) is a sequence of length 0   *)
(* or 1: <<>> is undefined/null, <<v>> is the value v.  A model id is the  *)
(* sequence of its characters, so that endsWith is computed on the text.   *)
(***************************************************************************)
EXTENDS Integers, Sequences, FiniteSets, TLC

\* ------------------------------------------------------------------ bounds

\* Longest progress list explored (initiate is capped at this length).
MaxItems == 2
\* Most download_model requests the worker holds unanswered.
MaxDownloads == 1
\* Most transcribe requests the worker holds unanswered.
MaxTranscribes == 2
\* Most settings changed through the settings dialog in one session.
MaxSets == 1
\* Most downloads of audio started in one session.
MaxRuns == 3
\* Most channels and most frames of the buffers the mixdown is tried on.
MaxChannels == 3
MaxFrames == 2

\* ----------------------------------------------------------------- domains

\* Model ids: a multilingual one, an English-only one (suffix ".en"), and one
\* shorter than the suffix.
Models ==
    { <<"t", "i", "n", "y">>, <<"t", "i", "n", "y", ".", "e", "n">>, <<"e", "n">> }
Dtypes == { "q8", "fp32" }
Subtasks == { "transcribe", "translate" }
Languages == { "auto", "fr" }
Files == { "config.json", "model.onnx" }
ProgressValues == { 50 }

\* Two AudioBuffers: one mono, one stereo.  A channel is the sequence of its
\* samples, each an integer number of eighths.
AudioBuffers ==
    { [numberOfChannels |-> 1, length |-> 2, channels |-> << <<3, 4>> >>],
      [numberOfChannels |-> 2, length |-> 2, channels |-> << <<1, 2>>, <<5, 7>> >>] }

\* A text is the sequence of its characters.
Hello == <<"H", "e", "l", "l", "o">>
world == <<"w", "o", "r", "l", "d">>

\* Chunk lists; a timestamp is <<start, end>> in milliseconds, end optional.
ChunksA ==
    << [text |-> Hello, timestamp |-> <<0, <<1500>>>>],
       [text |-> world, timestamp |-> <<1500, <<>>>>] >>
ChunksB ==
    << [text |-> Hello, timestamp |-> <<0, <<>>>>] >>

\* The data of an update / complete message: an interim and a final result.
PartialData == [text |-> Hello, chunks |-> ChunksB, tps |-> 1]
FinalData == [text |-> Hello \o world, chunks |-> ChunksA, tps |-> 2]
Datas == { PartialData, FinalData }
\* Texts typed into a chunk's textarea.
EditTexts == { <<"H", "i">> }
\* Chunk indices of the longest output.
ChunkIndices == 0..(Len(ChunksA) - 1)

VARIABLES
    \* useTranscriber's state
    transcript, isBusy, isModelLoading, isModelReady, isCheckingModel,
    progressItems, model, dtype, gpu, subtask, language,
    \* the worker: the configuration of the model it holds, and its open requests
    wLoaded, wCheck, wDownloads, wFiles, wStage, wTranscribes,
    \* AudioManager's audioData (the buffer alone)
    audioData,
    \* Transcript's editedChunks: chunk index (from 0) -> text
    editedChunks,
    \* the file last handed to the browser by saveBlob
    saved,
    \* the last operation performed, and the requests it posted
    last,
    \* the number of settings changed so far
    nSets,
    \* App's audioData, AudioManager's audioDownloadUrl and progress (in
    \* percent), the downloads that have not ended, and the number of downloads
    \* started so far
    appAudioData, audioDownloadUrl, progress, downloads, nRuns

ctrlVars ==
    <<transcript, isBusy, isModelLoading, isModelReady, isCheckingModel,
      progressItems, model, dtype, gpu, subtask, language>>
workerVars == <<wLoaded, wCheck, wDownloads, wFiles, wStage, wTranscribes>>
transcriptVars == <<editedChunks, saved>>
downloadVars == <<appAudioData, audioDownloadUrl, progress, downloads, nRuns>>
vars ==
    <<ctrlVars, workerVars, audioData, last, nSets, transcriptVars, downloadVars>>

\* The controller's state as one record.
Ctrl ==
    [transcript |-> transcript, isBusy |-> isBusy,
     isModelLoading |-> isModelLoading, isModelReady |-> isModelReady,
     isCheckingModel |-> isCheckingModel, progressItems |-> progressItems,
     model |-> model, dtype |-> dtype, gpu |-> gpu,
     subtask |-> subtask, language |-> language]

\* The controller's state becomes the record c.
Commit(c) ==
    /\ transcript' = c.transcript
    /\ isBusy' = c.isBusy
    /\ isModelLoading' = c.isModelLoading
    /\ isModelReady' = c.isModelReady
    /\ isCheckingModel' = c.isCheckingModel
    /\ progressItems' = c.progressItems
    /\ model' = c.model
    /\ dtype' = c.dtype
    /\ gpu' = c.gpu
    /\ subtask' = c.subtask
    /\ language' = c.language

\* The (model, dtype, gpu) a model is loaded for.
LoadConfig(c) == [model |-> c.model, dtype |-> c.dtype, gpu |-> c.gpu]

\* --------------------------------------------------------- pure functions

\* String.prototype.endsWith
EndsWith(s, suffix) ==
    /\ Len(s) >= Len(suffix)
    /\ SubSeq(s, Len(s) - Len(suffix) + 1, Len(s)) = suffix

DotEn == <<".", "e", "n">>

\* Floating point.  TLC's integers have 32 bits and a double has a
\* significand of 53, so a natural number is held as the sequence of its
\* digits in base 2^14, lowest first, without leading zeros (<<>> is 0), and
\* a value as [neg, sig, exp]: the number (-1)^neg * sig * 2^exp.  Exponent
\* range (overflow, subnormal numbers) is left out: samples are near 1.
LimbBits == 14
Limb == 16384

RECURSIVE Pow2(_)
Pow2(n) == IF n = 0 THEN 1 ELSE 2 * Pow2(n - 1)

RECURSIVE Natural(_)
Natural(k) ==
    IF k = 0 THEN <<>> ELSE <<k % Limb>> \o Natural(k \div Limb)

RECURSIVE Strip(_)
Strip(x) ==
    IF x # <<>> /\ x[Len(x)] = 0 THEN Strip(SubSeq(x, 1, Len(x) - 1)) ELSE x

\* x * s + carry, s and carry small
RECURSIVE TimesSmall(_, _, _)
TimesSmall(x, s, carry) ==
    IF x = <<>> THEN Natural(carry)
    ELSE <<(Head(x) * s + carry) % Limb>>
           \o TimesSmall(Tail(x), s, (Head(x) * s + carry) \div Limb)

RECURSIVE SmallBits(_)
SmallBits(n) == IF n = 0 THEN 0 ELSE 1 + SmallBits(n \div 2)

\* The number of significant bits of x.
BitLength(x) ==
    IF x = <<>> THEN 0 ELSE LimbBits * (Len(x) - 1) + SmallBits(x[Len(x)])

\* Bit i of x, bit 0 the lowest.
Bit(x, i) ==
    IF (i \div LimbBits) + 1 > Len(x) THEN 0
    ELSE (x[(i \div LimbBits) + 1] \div Pow2(i % LimbBits)) % 2

\* x \div 2^n
ShiftRight(x, n) ==
    LET y == SubSeq(x, (n \div LimbBits) + 1, Len(x))
        r == n % LimbBits
    IN Strip([i \in 1..Len(y) |->
                (y[i] \div Pow2(r))
                  + (IF i < Len(y) THEN (y[i + 1] % Pow2(r)) * Pow2(LimbBits - r)
                     ELSE 0)])

RECURSIVE Increment(_)
Increment(x) ==
    IF x = <<>> THEN <<1>>
    ELSE IF Head(x) + 1 < Limb THEN <<Head(x) + 1>> \o Tail(x)
    ELSE <<0>> \o Increment(Tail(x))

\* The value with the lowest bit of its significand set, or zero: equal
\* numbers are then equal records.
RECURSIVE Canonical(_)
Canonical(v) ==
    IF v.sig = <<>> THEN [neg |-> FALSE, sig |-> <<>>, exp |-> 0]
    ELSE IF Bit(v.sig, 0) = 0
         THEN Canonical([v EXCEPT !.sig = ShiftRight(v.sig, 1), !.exp = v.exp + 1])
         ELSE v

\* v rounded to the nearest value with a significand of the given number of
\* bits, a tie to the even one.
RoundToBits(v, bits) ==
    LET n == BitLength(v.sig) - bits
        q == ShiftRight(v.sig, n)
        up == /\ Bit(v.sig, n - 1) = 1
              /\ \/ Bit(q, 0) = 1
                 \/ \E i \in 0..(n - 2) : Bit(v.sig, i) = 1
    IN IF n <= 0 THEN v
       ELSE [v EXCEPT !.sig = IF up THEN Increment(q) ELSE q, !.exp = v.exp + n]

\* The samples of a channel are float32 numbers; the model writes k for the
\* sample k * 2^SampleExp.
SampleExp == -3

Sample(k) ==
    Canonical([neg |-> k < 0, sig |-> Natural(IF k < 0 THEN -k ELSE k),
               exp |-> SampleExp])

\* Math.sqrt(2), the double 0x3FF6A09E667F3BCD = 6369051672525773 * 2^-52
SCALING_FACTOR ==
    [neg |-> FALSE, sig |-> <<15309, 6652, 2534, 1448>>, exp |-> -52]

\* The double SCALING_FACTOR * (left[i] + right[i]), k the sum of the two
\* samples (a sum of two such float32 numbers is exact in a double): the
\* exact product rounded to 53 bits.
Scaled(k) ==
    RoundToBits([neg |-> k < 0,
                 sig |-> TimesSmall(SCALING_FACTOR.sig, IF k < 0 THEN -k ELSE k, 0),
                 exp |-> SCALING_FACTOR.exp + SampleExp], 53)

\* v / 2, exact
Half(v) == [v EXCEPT !.exp = v.exp - 1]

\* The number a Float32Array holds after v is stored in it.
Float32(v) == Canonical(RoundToBits(v, 24))

Mixdown_PlainAverage(buffer) ==
    IF buffer.numberOfChannels = 2
    THEN [i \in 1..Len(buffer.channels[1]) |->
            Float32(Half(Sample(buffer.channels[1][i] + buffer.channels[2][i])))]
    ELSE [i \in 1..Len(buffer.channels[1]) |-> Sample(buffer.channels[1][i])]

Mixdown_MixesFromTwo(buffer) ==
    IF buffer.numberOfChannels >= 2
    THEN [i \in 1..Len(buffer.channels[1]) |->
            Float32(Half(Scaled(buffer.channels[1][i] + buffer.channels[2][i])))]
    ELSE [i \in 1..Len(buffer.channels[1]) |-> Sample(buffer.channels[1][i])]

\* The mono samples postRequest sends.  With two channels a new Float32Array
\* of left.length zeros gets, for i below audioData.length, the scaled sum
\* of the two channels; otherwise the samples are those of channel 0.
Mixdown(buffer) ==
    IF buffer.numberOfChannels = 2
    THEN LET left == buffer.channels[1]
             right == buffer.channels[2]
         IN [i \in 1..Len(left) |->
                IF i <= buffer.length
                THEN Float32(Half(Scaled(left[i] + right[i])))
                ELSE Sample(0)]
    ELSE [i \in 1..Len(buffer.channels[1]) |-> Sample(buffer.channels[1][i])]

\* A request to the worker.  check_model and download_model carry no audio,
\* subtask or language; the fields are <<>> there.
Request(action, c, audio, sub, lang) ==
    [action |-> action, model |-> c.model, dtype |-> c.dtype, gpu |-> c.gpu,
     audio |-> audio, subtask |-> sub, language |-> lang]

\* ------------------------------------------------ the worker message handler

\* onProgress, were it to add an item for a file it does not find.
onProgress_AddsMissing(c, message) ==
    IF \E i \in 1..Len(c.progressItems) : c.progressItems[i].file = message.file
    THEN [c EXCEPT !.progressItems =
            [i \in 1..Len(c.progressItems) |->
                IF c.progressItems[i].file = message.file
                THEN [c.progressItems[i] EXCEPT !.progress = <<message.progress>>]
                ELSE c.progressItems[i]]]
    ELSE [c EXCEPT !.progressItems =
            Append(c.progressItems,
                   [status |-> "progress", file |-> message.file, name |-> "model",
                    loaded |-> 0, total |-> 100,
                    progress |-> <<message.progress>>])]

onProgress_TakesStatus(c, message) ==
    [c EXCEPT !.progressItems =
        [i \in 1..Len(c.progressItems) |->
            IF c.progressItems[i].file = message.file
            THEN [c.progressItems[i] EXCEPT !.progress = <<message.progress>>,
                                            !.status = message.status]
            ELSE c.progressItems[i]]]

\* onProgress, were the matching item overwritten with the whole message,
\* status included, instead of its progress field alone.
onProgress(c, message) ==
    [c EXCEPT !.progressItems =
        [i \in 1..Len(c.progressItems) |->
            IF c.progressItems[i].file = message.file
            THEN [c.progressItems[i] EXCEPT !.progress = <<message.progress>>]
            ELSE c.progressItems[i]]]

\* onUpdateComplete, were the chunks of the message added to those in place.
onUpdateComplete_Patches(c, message) ==
    LET busy == message.status = "update"
        kept == IF c.transcript = <<>> THEN <<>> ELSE c.transcript[1].chunks
    IN [c EXCEPT !.transcript = << [isBusy |-> busy,
                                    text |-> message.data.text,
                                    tps |-> message.data.tps,
                                    chunks |-> kept \o message.data.chunks] >>,
                 !.isBusy = busy]

onUpdateComplete(c, message) ==
    LET busy == message.status = "update"
    IN [c EXCEPT !.transcript = << [isBusy |-> busy,
                                    text |-> message.data.text,
                                    tps |-> message.data.tps,
                                    chunks |-> message.data.chunks] >>,
                 !.isBusy = busy]

onInitiate(c, message) ==
    [c EXCEPT !.isModelLoading = TRUE,
              !.progressItems = Append(c.progressItems, message)]

\* onReady, were the built pipeline taken for the answer to the request.
onReady_SetsReady(c, message) ==
    [c EXCEPT !.isModelLoading = FALSE, !.isModelReady = TRUE]

onReady(c, message) ==
    [c EXCEPT !.isModelLoading = FALSE]

onModelReady(c, message) ==
    [c EXCEPT !.isModelLoading = FALSE,
              !.isModelReady = TRUE,
              !.isCheckingModel = FALSE]

\* onModelCheckComplete, were the end of the check taken for a loaded model.
onModelCheckComplete_SetsReady(c, message) ==
    [c EXCEPT !.isCheckingModel = FALSE, !.isModelReady = TRUE]

onModelCheckComplete(c, message) ==
    [c EXCEPT !.isCheckingModel = FALSE]

\* onError, were the checking flag left alone.
onError_KeepsChecking(c, message) ==
    [c EXCEPT !.isBusy = FALSE,
              !.isModelLoading = FALSE]

\* onError, were the items of the failed download rolled back.
onError_DropsItems(c, message) ==
    [c EXCEPT !.isBusy = FALSE,
              !.isModelLoading = FALSE,
              !.isCheckingModel = FALSE,
              !.progressItems = <<>>]

onError(c, message) ==
    [c EXCEPT !.isBusy = FALSE,
              !.isModelLoading = FALSE,
              !.isCheckingModel = FALSE]

\* onDone, were its filter to keep the items of the file instead.
onDone_KeepsMatching(c, message) ==
    [c EXCEPT !.progressItems =
        SelectSeq(c.progressItems, LAMBDA item : item.file = message.file)]

\* onDone, were it to remove one item of the file, the first, and leave its
\* duplicates.
onDone_RemovesFirst(c, message) ==
    LET hits == { i \in 1..Len(c.progressItems) :
                    c.progressItems[i].file = message.file }
        first == CHOOSE i \in hits : \A j \in hits : i <= j
    IN IF hits = {} THEN c
       ELSE [c EXCEPT !.progressItems =
               [i \in 1..(Len(c.progressItems) - 1) |->
                   IF i < first THEN c.progressItems[i]
                   ELSE c.progressItems[i + 1]]]

onDone(c, message) ==
    [c EXCEPT !.progressItems =
        SelectSeq(c.progressItems, LAMBDA item : item.file # message.file)]

\* The switch on message.status.
onMessage(c, message) ==
    CASE message.status = "progress" -> onProgress(c, message)
      [] message.status \in {"update", "complete"} -> onUpdateComplete(c, message)
      [] message.status = "initiate" -> onInitiate(c, message)
      [] message.status = "ready" -> onReady(c, message)
      [] message.status = "model_ready" -> onModelReady(c, message)
      [] message.status = "model_check_complete" -> onModelCheckComplete(c, message)
      [] message.status = "error" -> onError(c, message)
      [] message.status = "done" -> onDone(c, message)
      [] OTHER -> c

\* ------------------------------------------------------- the hook's effects

\* useEffect(() => setIsModelReady(false), [model, dtype, gpu]): runs after a
\* render in which one of the three differs from the render before.
\* The effect, were gpu missing from its dependencies.
resetReadyEffect_NoGpu(old, new) ==
    IF <<new.model, new.dtype>> # <<old.model, old.dtype>>
    THEN [new EXCEPT !.isModelReady = FALSE]
    ELSE new

\* The effect, were it to depend on the whole configuration.
resetReadyEffect_AnySetting(old, new) ==
    IF <<new.model, new.dtype, new.gpu, new.subtask, new.language>>
         # <<old.model, old.dtype, old.gpu, old.subtask, old.language>>
    THEN [new EXCEPT !.isModelReady = FALSE]
    ELSE new

\* The effect, were a changed configuration to start the check again.
resetReadyEffect_ChecksAgain(old, new) ==
    IF <<new.model, new.dtype, new.gpu>> # <<old.model, old.dtype, old.gpu>>
    THEN [new EXCEPT !.isModelReady = FALSE, !.isCheckingModel = TRUE]
    ELSE new

resetReadyEffect(old, new) ==
    IF <<new.model, new.dtype, new.gpu>> # <<old.model, old.dtype, old.gpu>>
    THEN [new EXCEPT !.isModelReady = FALSE]
    ELSE new

\* ---------------------------------------------------- the hook's operations

setModel(c, m) == resetReadyEffect(c, [c EXCEPT !.model = m])
setDtype(c, d) == resetReadyEffect(c, [c EXCEPT !.dtype = d])
setGPU(c, g) == resetReadyEffect(c, [c EXCEPT !.gpu = g])
setSubtask(c, s) == resetReadyEffect(c, [c EXCEPT !.subtask = s])
setLanguage(c, l) == resetReadyEffect(c, [c EXCEPT !.language = l])

\* onInputChange, were busy cleared with the output.
onInputChange_ClearsBusy(c) == [c EXCEPT !.transcript = <<>>, !.isBusy = FALSE]

onInputChange(c) == [c EXCEPT !.transcript = <<>>]

\* downloadModel, were it to leave the readiness alone.
downloadModelRequest_KeepsReady(c) ==
    [state |-> c,
     sent |-> << Request("download_model", c, <<>>, <<>>, <<>>) >>]

\* downloadModel, were it to ask for the check again before the download.
downloadModelRequest_ChecksAgain(c) ==
    [state |-> [c EXCEPT !.isModelReady = FALSE],
     sent |-> << Request("check_model", c, <<>>, <<>>, <<>>),
                 Request("download_model", c, <<>>, <<>>, <<>>) >>]

\* The state after downloadModel, and the requests it posts.
downloadModelRequest(c) ==
    [state |-> [c EXCEPT !.isModelReady = FALSE],
     sent |-> << Request("download_model", c, <<>>, <<>>, <<>>) >>]

\* start, were the state cleared before the audio is looked at.
postRequest_ClearsFirst(c, audio) ==
    IF audio # <<>>
    THEN [state |-> [c EXCEPT !.transcript = <<>>, !.isBusy = TRUE],
          sent |-> << Request("transcribe", c,
                        << Mixdown(audio[1]) >>,
                        IF ~EndsWith(c.model, DotEn) THEN <<c.subtask>> ELSE <<>>,
                        IF ~EndsWith(c.model, DotEn) /\ c.language # "auto"
                        THEN <<c.language>> ELSE <<>>) >>]
    ELSE [state |-> [c EXCEPT !.transcript = <<>>, !.isBusy = TRUE],
          sent |-> <<>>]

\* start, were the previous output kept.
postRequest_KeepsOutput(c, audio) ==
    IF audio # <<>>
    THEN [state |-> [c EXCEPT !.isBusy = TRUE],
          sent |-> << Request("transcribe", c,
                        << Mixdown(audio[1]) >>,
                        IF ~EndsWith(c.model, DotEn) THEN <<c.subtask>> ELSE <<>>,
                        IF ~EndsWith(c.model, DotEn) /\ c.language # "auto"
                        THEN <<c.language>> ELSE <<>>) >>]
    ELSE [state |-> c, sent |-> <<>>]

\* start, were "auto" sent like any language.
postRequest_SendsAuto(c, audio) ==
    IF audio # <<>>
    THEN [state |-> [c EXCEPT !.transcript = <<>>, !.isBusy = TRUE],
          sent |-> << Request("transcribe", c,
                        << Mixdown(audio[1]) >>,
                        IF ~EndsWith(c.model, DotEn) THEN <<c.subtask>> ELSE <<>>,
                        IF ~EndsWith(c.model, DotEn)
                        THEN <<c.language>> ELSE <<>>) >>]
    ELSE [state |-> c, sent |-> <<>>]

\* The state after start(audioData), and the requests it posts.
postRequest(c, audio) ==
    IF audio # <<>>
    THEN [state |-> [c EXCEPT !.transcript = <<>>, !.isBusy = TRUE],
          sent |-> << Request("transcribe", c,
                        << Mixdown(audio[1]) >>,
                        IF ~EndsWith(c.model, DotEn) THEN <<c.subtask>> ELSE <<>>,
                        IF ~EndsWith(c.model, DotEn) /\ c.language # "auto"
                        THEN <<c.language>> ELSE <<>>) >>]
    ELSE [state |-> c, sent |-> <<>>]

\* The check_model request of the mount effect.
checkExistingModel(c) == Request("check_model", c, <<>>, <<>>, <<>>)

\* -------------------------------------------------------------- bookkeeping

\* The controller handles a worker message.
Handle(message) == Commit(onMessage(Ctrl, message))

\* The operation just performed: its name, the file key of a file message,
\* the audio given to start, the requests it posted, and the readiness it
\* found; and the files whose initiate was handled with no done handled
\* since.
Track(op, file, audio, sent) ==
    last' = [op |-> op, file |-> file, audio |-> audio, sent |-> sent,
             ready |-> isModelReady,
             pending |-> IF op = "initiate" THEN last.pending \cup {file}
                         ELSE IF op = "done" THEN last.pending \ {file}
                         ELSE last.pending]

\* -------------------------------------------------------------- Transcript

overlayEffect_KeepsEdits(prev, chunks) ==
    IF chunks # <<>>
    THEN [i \in 0..(Len(chunks[1]) - 1) |->
            IF i \in DOMAIN prev THEN prev[i] ELSE chunks[1][i + 1].text]
    ELSE prev

\* The effect on [transcribedData?.chunks], run when the chunks given to the
\* component are another array than before (chunks is <<>> for undefined):
\* with chunks, the overlay becomes every index with the chunk's text;
\* without, it is left as it is.  Every update / complete message carries an
\* array of its own, so the effect runs after each of them.
overlayEffect(prev, chunks) ==
    IF chunks # <<>>
    THEN [i \in 0..(Len(chunks[1]) - 1) |-> chunks[1][i + 1].text]
    ELSE prev

handleTextChange(prev, chunkIndex, newText) ==
    [i \in (DOMAIN prev) \cup {chunkIndex} |->
        IF i = chunkIndex THEN newText ELSE prev[i]]

\* transcribedData?.chunks[chunkIndex]?.text ?? "", output being the
\* transcribedData given to the component.
originalText(output, chunkIndex) ==
    IF output # <<>> /\ chunkIndex + 1 \in 1..Len(output[1].chunks)
    THEN output[1].chunks[chunkIndex + 1].text
    ELSE <<>>

\* editedChunks[chunkIndex] ?? the original text
getChunkText(overlay, output, chunkIndex) ==
    IF chunkIndex \in DOMAIN overlay
    THEN overlay[chunkIndex]
    ELSE originalText(output, chunkIndex)

isChunkEdited(overlay, output, chunkIndex) ==
    originalText(output, chunkIndex) # getChunkText(overlay, output, chunkIndex)

handleKeyDown_ResetsAll(prev, output, key, chunkIndex) ==
    IF key = "Escape"
    THEN [i \in (DOMAIN prev) \cup {chunkIndex} |-> originalText(output, i)]
    ELSE prev

\* The overlay after a key pressed in the textarea of chunkIndex: Escape puts
\* the original text back, any other key leaves the overlay alone.
handleKeyDown(prev, output, key, chunkIndex) ==
    IF key = "Escape"
    THEN [i \in (DOMAIN prev) \cup {chunkIndex} |->
            IF i = chunkIndex THEN originalText(output, chunkIndex) ELSE prev[i]]
    ELSE prev

\* ----------------------------------------------------------------- exports
\* A file's content is the sequence of its characters.

NL == <<"\n">>

\* The characters String.prototype.trim removes and \s matches, among those
\* the texts here are made of.
Whitespace == { " ", "\n", "\t" }

RECURSIVE TrimStart(_)
TrimStart(s) ==
    IF s # <<>> /\ Head(s) \in Whitespace THEN TrimStart(Tail(s)) ELSE s

RECURSIVE TrimEnd(_)
TrimEnd(s) ==
    IF s # <<>> /\ s[Len(s)] \in Whitespace
    THEN TrimEnd(SubSeq(s, 1, Len(s) - 1))
    ELSE s

\* String.prototype.trim
Trim(s) == TrimEnd(TrimStart(s))

\* Array.prototype.join with the separator sep
RECURSIVE Join(_, _)
Join(texts, sep) ==
    IF texts = <<>> THEN <<>>
    ELSE IF Len(texts) = 1 THEN texts[1]
    ELSE texts[1] \o sep \o Join(Tail(texts), sep)

\* The decimal digits of a natural number.
RECURSIVE Digits(_)
Digits(n) ==
    LET d == <<"0", "1", "2", "3", "4", "5", "6", "7", "8", "9">>[(n % 10) + 1]
    IN IF n < 10 THEN <<d>> ELSE Digits(n \div 10) \o <<d>>

\* The chunks of transcribedData?.chunks ?? []
chunksOf(output) == IF output = <<>> THEN <<>> ELSE output[1].chunks

\* The effective texts of the chunks, in chunk order.
effectiveTexts(output, overlay) ==
    [i \in 1..Len(chunksOf(output)) |-> getChunkText(overlay, output, i - 1)]

exportTXT_Spaced(output, overlay) ==
    [filename |-> "transcript.txt", type |-> "text/plain",
     content |-> Trim(Join(effectiveTexts(output, overlay), <<" ">>))]

exportTXT(output, overlay) ==
    [filename |-> "transcript.txt", type |-> "text/plain",
     content |-> Trim(Join(effectiveTexts(output, overlay), <<>>))]

\* formatSrtTimeRange of utils/AudioUtils, which is not among the sources:
\* HH:MM:SS,mmm --> HH:MM:SS,mmm, as section 4.5 of the specification has it.
Pad(n, width) ==
    LET ds == Digits(n)
    IN [i \in 1..(width - Len(ds)) |-> "0"] \o ds

formatSrtTime(ms) ==
    Pad(ms \div 3600000, 2) \o <<":">> \o Pad((ms \div 60000) % 60, 2) \o <<":">>
      \o Pad((ms \div 1000) % 60, 2) \o <<",">> \o Pad(ms % 1000, 3)

formatSrtTimeRange(start, end) ==
    formatSrtTime(start) \o <<" ", "-", "-", ">", " ">> \o formatSrtTime(end)

srtCue_OpenEndIsZero(output, overlay, i) ==
    LET chunk == chunksOf(output)[i + 1]
        start == chunk.timestamp[1]
        end == IF chunk.timestamp[2] # <<>> THEN chunk.timestamp[2][1] ELSE 0
    IN Digits(i + 1) \o NL
         \o formatSrtTimeRange(start, end) \o NL
         \o getChunkText(overlay, output, i) \o NL \o NL

\* The text exportSRT adds for chunk i (from 0).
srtCue(output, overlay, i) ==
    LET chunk == chunksOf(output)[i + 1]
        start == chunk.timestamp[1]
        end == IF chunk.timestamp[2] # <<>> THEN chunk.timestamp[2][1] ELSE start
    IN Digits(i + 1) \o NL
         \o formatSrtTimeRange(start, end) \o NL
         \o getChunkText(overlay, output, i) \o NL \o NL

exportSRT(output, overlay) ==
    [filename |-> "transcript.srt", type |-> "text/plain",
     content |-> Join([i \in 1..Len(chunksOf(output)) |->
                          srtCue(output, overlay, i - 1)], <<>>)]

\* JSON.stringify of a timestamp held in milliseconds as the number of
\* seconds it stands for: 1500 is 1.5, 0 is 0, 1520 is 1.52.
RECURSIVE DropZeros(_)
DropZeros(ds) ==
    IF ds # <<>> /\ ds[Len(ds)] = "0"
    THEN DropZeros(SubSeq(ds, 1, Len(ds) - 1))
    ELSE ds

JsonNumber(ms) ==
    LET fraction == DropZeros(Pad(ms % 1000, 3))
    IN Digits(ms \div 1000)
         \o (IF fraction = <<>> THEN <<>> ELSE <<".">> \o fraction)

\* JSON.stringify of a string: quotes around it, the quote, the backslash
\* and the control characters escaped.
JsonString(text) ==
    LET escape(c) ==
            CASE c = "\"" -> <<"\\", "\"">>
              [] c = "\\" -> <<"\\", "\\">>
              [] c = "\n" -> <<"\\", "n">>
              [] c = "\t" -> <<"\\", "t">>
              [] OTHER -> <<c>>
    IN <<"\"">> \o Join([i \in 1..Len(text) |-> escape(text[i])], <<>>) \o <<"\"">>

Spaces(n) == [i \in 1..n |-> " "]

JsonTimestamp_EndFallsBack(timestamp) ==
    LET end == IF timestamp[2] # <<>> THEN JsonNumber(timestamp[2][1])
               ELSE JsonNumber(timestamp[1])
    IN <<"[">> \o NL
         \o Spaces(6) \o JsonNumber(timestamp[1]) \o <<",">> \o NL
         \o Spaces(6) \o end \o NL
         \o Spaces(4) \o <<"]">>

\* JSON.stringify(timestamp, null, 2) at four spaces of indentation: one
\* element per line, six spaces in, a missing end as null.
JsonTimestamp(timestamp) ==
    LET end == IF timestamp[2] # <<>> THEN JsonNumber(timestamp[2][1])
               ELSE <<"n", "u", "l", "l">>
    IN <<"[">> \o NL
         \o Spaces(6) \o JsonNumber(timestamp[1]) \o <<",">> \o NL
         \o Spaces(6) \o end \o NL
         \o Spaces(4) \o <<"]">>

\* The orders in which a chunk object may list its keys. The chunk objects
\* are made by the worker, whose source is not available; the spread in
\* exportJSON keeps their order.
KeyOrders == { <<"text", "timestamp">>, <<"timestamp", "text">> }

JsonMember(key, chunk, text) ==
    IF key = "text"
    THEN Spaces(4) \o <<"\"", "t", "e", "x", "t", "\"", ":", " ">>
           \o JsonString(text)
    ELSE Spaces(4)
           \o <<"\"", "t", "i", "m", "e", "s", "t", "a", "m", "p", "\"", ":", " ">>
           \o JsonTimestamp(chunk.timestamp)

\* JSON.stringify(jsonData, null, 2), jsonData the chunks with their
\* effective texts.
stringify(output, overlay, order) ==
    LET chunks == chunksOf(output)
        object(i) ==
            Spaces(2) \o <<"{">> \o NL
              \o JsonMember(order[1], chunks[i], getChunkText(overlay, output, i - 1))
              \o <<",">> \o NL
              \o JsonMember(order[2], chunks[i], getChunkText(overlay, output, i - 1))
              \o NL \o Spaces(2) \o <<"}">>
    IN IF chunks = <<>> THEN <<"[", "]">>
       ELSE <<"[">> \o NL
              \o Join([i \in 1..Len(chunks) |-> object(i)], <<",">> \o NL)
              \o NL \o <<"]">>

\* The first position from p on whose character is not in the class
\* (Len(s) + 1 when there is none): the end of a greedy \s+ or \S+.
RECURSIVE RunEnd(_, _, _)
RunEnd(s, p, space) ==
    IF p <= Len(s) /\ ((s[p] \in Whitespace) = space)
    THEN RunEnd(s, p + 1, space)
    ELSE p

\* /( {4}"timestamp": )\[\s+(\S+)\s+(\S+)\s+\]/ tried at position p: whether
\* it matches, where the match ends, and what "$1[$2 $3]" makes of it. A
\* shorter run than the greedy one is followed by a character of the run's
\* own class, so no backtracking finds a match the greedy runs miss.
timestampHead ==
    Spaces(4) \o <<"\"", "t", "i", "m", "e", "s", "t", "a", "m", "p", "\"", ":", " ">>

MatchAt(s, p) ==
    LET open == p + Len(timestampHead)
        first == RunEnd(s, open + 1, TRUE)
        gap == RunEnd(s, first, FALSE)
        second == RunEnd(s, gap, TRUE)
        tail == RunEnd(s, second, FALSE)
        close == RunEnd(s, tail, TRUE)
    IN [found |-> /\ open <= Len(s)
                  /\ SubSeq(s, p, open - 1) = timestampHead
                  /\ s[open] = "["
                  /\ first > open + 1
                  /\ gap > first
                  /\ second > gap
                  /\ tail > second
                  /\ close > tail
                  /\ close <= Len(s)
                  /\ s[close] = "]",
        end |-> close,
        replacement |-> timestampHead \o <<"[">> \o SubSeq(s, first, gap - 1)
                          \o <<" ">> \o SubSeq(s, second, tail - 1) \o <<"]">>]

\* String.prototype.replace with the global pattern: every match, left to
\* right, replaced.
RECURSIVE replaceTimestamps(_, _)
replaceTimestamps(s, p) ==
    IF p > Len(s) THEN <<>>
    ELSE IF MatchAt(s, p).found
         THEN MatchAt(s, p).replacement \o replaceTimestamps(s, MatchAt(s, p).end + 1)
         ELSE <<s[p]>> \o replaceTimestamps(s, p + 1)

exportJSON(output, overlay, order) ==
    [filename |-> "transcript.json", type |-> "application/json",
     content |-> replaceTimestamps(stringify(output, overlay, order), 1)]

\* ------------------------------------------------------------------ worker
\* The worker (worker.js) is not among the sources; its side of the protocol
\* follows sections 4.1 to 4.3 and 6 of the specification.  A message it posts
\* is handled by the controller in the same step: the worker never reads the
\* controller's state, so delaying the delivery adds no behaviour.

NoFiles == [f \in Files |-> "todo"]

InitiateMessage(f) ==
    [status |-> "initiate", file |-> f, name |-> "model", loaded |-> 0,
     total |-> 100, progress |-> <<>>]

\* The worker answers check_model: the model is there and loaded.
WorkerCheckReady ==
    /\ wCheck # <<>>
    /\ wLoaded' = wCheck
    /\ wCheck' = <<>>
    /\ UNCHANGED <<wDownloads, wFiles, wStage, wTranscribes>>
    /\ Handle([status |-> "model_ready"])
    /\ UNCHANGED <<audioData, last, nSets, transcriptVars, downloadVars>>

\* The worker answers check_model: no model.
WorkerCheckComplete ==
    /\ wCheck # <<>>
    /\ wCheck' = <<>>
    /\ UNCHANGED <<wLoaded, wDownloads, wFiles, wStage, wTranscribes>>
    /\ Handle([status |-> "model_check_complete"])
    /\ UNCHANGED <<audioData, last, nSets, transcriptVars, downloadVars>>

\* The check fails.
WorkerCheckError ==
    /\ wCheck # <<>>
    /\ wCheck' = <<>>
    /\ UNCHANGED <<wLoaded, wDownloads, wFiles, wStage, wTranscribes>>
    /\ Handle([status |-> "error"])
    /\ UNCHANGED <<audioData, last, nSets, transcriptVars, downloadVars>>

\* A file of the download at the head of wDownloads starts.
WorkerInitiate(f) ==
    /\ wDownloads # <<>>
    /\ wStage = "files"
    /\ wFiles[f] = "todo"
    /\ Len(progressItems) < MaxItems
    /\ wFiles' = [wFiles EXCEPT ![f] = "active"]
    /\ UNCHANGED <<wLoaded, wCheck, wDownloads, wStage, wTranscribes>>
    /\ Handle(InitiateMessage(f))
    /\ UNCHANGED <<audioData, last, nSets, transcriptVars, downloadVars>>

WorkerProgress(f, p) ==
    /\ wDownloads # <<>>
    /\ wFiles[f] = "active"
    /\ UNCHANGED workerVars
    /\ Handle([status |-> "progress", file |-> f, progress |-> p])
    /\ UNCHANGED <<audioData, last, nSets, transcriptVars, downloadVars>>

WorkerDone(f) ==
    /\ wDownloads # <<>>
    /\ wFiles[f] = "active"
    /\ wFiles' = [wFiles EXCEPT ![f] = "done"]
    /\ UNCHANGED <<wLoaded, wCheck, wDownloads, wStage, wTranscribes>>
    /\ Handle([status |-> "done", file |-> f])
    /\ UNCHANGED <<audioData, last, nSets, transcriptVars, downloadVars>>

\* The pipeline is built: no file is still in transfer.
WorkerReady ==
    /\ wDownloads # <<>>
    /\ wStage = "files"
    /\ \A f \in Files : wFiles[f] # "active"
    /\ wStage' = "ready"
    /\ UNCHANGED <<wLoaded, wCheck, wDownloads, wFiles, wTranscribes>>
    /\ Handle([status |-> "ready"])
    /\ UNCHANGED <<audioData, last, nSets, transcriptVars, downloadVars>>

\* The download is answered: the worker holds the model of the request.
WorkerModelReady ==
    /\ wDownloads # <<>>
    /\ wStage = "ready"
    /\ wLoaded' = <<Head(wDownloads)>>
    /\ wDownloads' = Tail(wDownloads)
    /\ wFiles' = NoFiles
    /\ wStage' = "files"
    /\ UNCHANGED <<wCheck, wTranscribes>>
    /\ Handle([status |-> "model_ready"])
    /\ UNCHANGED <<audioData, last, nSets, transcriptVars, downloadVars>>

\* The download fails; its files are abandoned.
WorkerDownloadError ==
    /\ wDownloads # <<>>
    /\ wDownloads' = Tail(wDownloads)
    /\ wFiles' = NoFiles
    /\ wStage' = "files"
    /\ UNCHANGED <<wLoaded, wCheck, wTranscribes>>
    /\ Handle([status |-> "error"])
    /\ UNCHANGED <<audioData, last, nSets, transcriptVars, downloadVars>>

\* The worker works on the request at the head of wTranscribes.
WorkerUpdate(data) ==
    /\ wTranscribes # <<>>
    /\ UNCHANGED workerVars
    /\ Handle([status |-> "update", data |-> data])
    /\ editedChunks' = overlayEffect(editedChunks, << data.chunks >>)
    /\ UNCHANGED <<audioData, last, nSets, saved, downloadVars>>

WorkerComplete(data) ==
    /\ wTranscribes # <<>>
    /\ wTranscribes' = Tail(wTranscribes)
    /\ UNCHANGED <<wLoaded, wCheck, wDownloads, wFiles, wStage>>
    /\ Handle([status |-> "complete", data |-> data])
    /\ editedChunks' = overlayEffect(editedChunks, << data.chunks >>)
    /\ UNCHANGED <<audioData, last, nSets, saved, downloadVars>>

WorkerTranscribeError ==
    /\ wTranscribes # <<>>
    /\ wTranscribes' = Tail(wTranscribes)
    /\ UNCHANGED <<wLoaded, wCheck, wDownloads, wFiles, wStage>>
    /\ Handle([status |-> "error"])
    /\ UNCHANGED <<audioData, last, nSets, transcriptVars, downloadVars>>

\* The worker receives the requests of sent.
Post(sent) ==
    /\ wDownloads' = wDownloads \o
          [i \in 1..Len(SelectSeq(sent, LAMBDA r : r.action = "download_model")) |->
              LoadConfig(SelectSeq(sent, LAMBDA r : r.action = "download_model")[i])]
    /\ wTranscribes' = wTranscribes \o
          [i \in 1..Len(SelectSeq(sent, LAMBDA r : r.action = "transcribe")) |->
              SelectSeq(sent, LAMBDA r : r.action = "transcribe")[i].audio[1]]
    /\ UNCHANGED <<wLoaded, wCheck, wFiles, wStage>>

\* ---------------------------------------------------------------- AudioManager

View_IgnoresReadiness ==
    IF isCheckingModel THEN "checking" ELSE "ready"

\* Which of its three views AudioManager renders.
View ==
    IF isCheckingModel THEN "checking"
    ELSE IF ~isModelReady THEN "download"
    ELSE "ready"

\* SettingsModal's isMultilingual, as far as the model id decides it: the
\* language select is disabled without it.
IsMultilingual == ~EndsWith(model, DotEn)

\* The three selects and the checkbox of the settings, always rendered.
SelectModel(m) ==
    /\ m # model
    /\ nSets < MaxSets
    /\ nSets' = nSets + 1
    /\ Commit(setModel(Ctrl, m))
    /\ UNCHANGED <<workerVars, audioData, last, transcriptVars, downloadVars>>

SelectDtype(d) ==
    /\ d # dtype
    /\ nSets < MaxSets
    /\ nSets' = nSets + 1
    /\ Commit(setDtype(Ctrl, d))
    /\ UNCHANGED <<workerVars, audioData, last, transcriptVars, downloadVars>>

CheckGPU(g) ==
    /\ g # gpu
    /\ nSets < MaxSets
    /\ nSets' = nSets + 1
    /\ Commit(setGPU(Ctrl, g))
    /\ UNCHANGED <<workerVars, audioData, last, transcriptVars, downloadVars>>

SelectLanguage(l) ==
    /\ IsMultilingual
    /\ l # language
    /\ nSets < MaxSets
    /\ nSets' = nSets + 1
    /\ Commit(setLanguage(Ctrl, l))
    /\ UNCHANGED <<workerVars, audioData, last, transcriptVars, downloadVars>>

\* The download button: rendered in the download view, disabled while loading.
ClickDownload ==
    /\ View = "download"
    /\ ~isModelLoading
    /\ Len(wDownloads) < MaxDownloads
    /\ LET r == downloadModelRequest(Ctrl)
       IN Commit(r.state) /\ Post(r.sent)
    /\ UNCHANGED <<audioData, last, nSets, transcriptVars, downloadVars>>

\* FileTile's onFileUpdate with a decoded file.  No control of AudioManager
\* sets a download URL, so the effect on the URL has nothing to run again
\* when App renders with the new audio.
FileUpdate(b) ==
    /\ View = "ready"
    /\ Commit(onInputChange(Ctrl))
    /\ audioData' = <<b>>
    /\ appAudioData' = <<b>>
    /\ UNCHANGED <<workerVars, last, nSets, transcriptVars>>
    /\ UNCHANGED <<audioDownloadUrl, progress, downloads, nRuns>>

\* The TranscribeButton: rendered in the ready view once there is audio.  Its
\* own source is not among the files; it is given isModelLoading and isBusy
\* (as isTranscribing) and is taken to ignore a click while either is true.
ClickTranscribe ==
    /\ View = "ready"
    /\ audioData # <<>>
    /\ ~isModelLoading
    /\ ~isBusy
    /\ Len(wTranscribes) < MaxTranscribes
    /\ LET r == postRequest(Ctrl, audioData)
       IN Commit(r.state) /\ Post(r.sent)
    /\ UNCHANGED <<audioData, last, nSets, transcriptVars, downloadVars>>

\* The textarea of chunk i, rendered for a chunk of the current output.
EditChunk(i, newText) ==
    /\ transcript # <<>>
    /\ i \in 0..(Len(transcript[1].chunks) - 1)
    /\ editedChunks' = handleTextChange(editedChunks, i, newText)
    /\ UNCHANGED <<ctrlVars, workerVars, audioData, last, nSets, saved,
                   downloadVars>>

\* ------------------------------------------------------------ specifications

DefaultModel == <<"t", "i", "n", "y">>

\* After the mount: the initial useState values, and the check_model request
\* of the mount effect on its way.
InitWith(m, d, g, s, l) ==
    /\ transcript = <<>>
    /\ isBusy = FALSE
    /\ isModelLoading = FALSE
    /\ isModelReady = FALSE
    /\ isCheckingModel = TRUE
    /\ progressItems = <<>>
    /\ model = m
    /\ dtype = d
    /\ gpu = g
    /\ subtask = s
    /\ language = l
    /\ wLoaded = <<>>
    /\ wCheck = << [model |-> m, dtype |-> d, gpu |-> g] >>
    /\ wDownloads = <<>>
    /\ wFiles = NoFiles
    /\ wStage = "files"
    /\ wTranscribes = <<>>
    /\ audioData = <<>>
    /\ editedChunks = [i \in {} |-> ""]
    /\ saved = <<>>
    /\ appAudioData = <<>>
    /\ audioDownloadUrl = <<>>
    /\ progress = <<0>>
    /\ downloads = {}
    /\ nRuns = 0
    /\ nSets = 0
    /\ last = [op |-> "mount", file |-> "", audio |-> <<>>, ready |-> FALSE,
                sent |-> << checkExistingModel(
                              [model |-> m, dtype |-> d, gpu |-> g]) >>,
                pending |-> {}]

\* The application: AudioManager's controls drive the hook, the worker answers.
Init == InitWith(DefaultModel, "q8", FALSE, "transcribe", "auto")

Next ==
    \/ \E m \in Models : SelectModel(m)
    \/ \E d \in Dtypes : SelectDtype(d)
    \/ \E g \in BOOLEAN : CheckGPU(g)
    \/ \E l \in Languages : SelectLanguage(l)
    \/ ClickDownload
    \/ \E b \in AudioBuffers : FileUpdate(b)
    \/ ClickTranscribe
    \/ WorkerCheckReady
    \/ WorkerCheckComplete
    \/ WorkerCheckError
    \/ \E f \in Files : WorkerInitiate(f)
    \/ \E f \in Files, p \in ProgressValues : WorkerProgress(f, p)
    \/ \E f \in Files : WorkerDone(f)
    \/ WorkerReady
    \/ WorkerModelReady
    \/ WorkerDownloadError
    \/ WorkerUpdate(PartialData)
    \/ WorkerComplete(FinalData)
    \/ WorkerTranscribeError
    \/ \E i \in ChunkIndices, newText \in EditTexts : EditChunk(i, newText)

Spec == Init /\ [][Next]_vars

\* The same application with a worker that goes on with the downloads and the
\* transcriptions it holds: it runs beside the controller and carries each of
\* them to its next message.  Nothing is assumed of its answer to check_model,
\* nor of the user.
WorkerWork ==
    \/ \E f \in Files : WorkerInitiate(f)
    \/ \E f \in Files : WorkerDone(f)
    \/ WorkerReady
    \/ WorkerModelReady
    \/ WorkerComplete(FinalData)

LiveSpec == Init /\ [][Next]_vars /\ WF_vars(WorkerWork)

\* The hook alone, under any caller and any worker: the operations of the
\* Transcriber interface at any time, any message at any time.  The worker
\* and AudioManager stand still; each step records itself in last.

CallSetModel(m) ==
    /\ Commit(setModel(Ctrl, m))
    /\ Track("setModel", "", <<>>, <<>>)
    /\ UNCHANGED <<workerVars, audioData, nSets, transcriptVars, downloadVars>>

CallSetDtype(d) ==
    /\ Commit(setDtype(Ctrl, d))
    /\ Track("setDtype", "", <<>>, <<>>)
    /\ UNCHANGED <<workerVars, audioData, nSets, transcriptVars, downloadVars>>

CallSetGPU(g) ==
    /\ Commit(setGPU(Ctrl, g))
    /\ Track("setGPU", "", <<>>, <<>>)
    /\ UNCHANGED <<workerVars, audioData, nSets, transcriptVars, downloadVars>>

CallSetSubtask(s) ==
    /\ Commit(setSubtask(Ctrl, s))
    /\ Track("setSubtask", "", <<>>, <<>>)
    /\ UNCHANGED <<workerVars, audioData, nSets, transcriptVars, downloadVars>>

CallSetLanguage(l) ==
    /\ Commit(setLanguage(Ctrl, l))
    /\ Track("setLanguage", "", <<>>, <<>>)
    /\ UNCHANGED <<workerVars, audioData, nSets, transcriptVars, downloadVars>>

CallOnInputChange ==
    /\ Commit(onInputChange(Ctrl))
    /\ Track("onInputChange", "", <<>>, <<>>)
    /\ UNCHANGED <<workerVars, audioData, nSets, transcriptVars, downloadVars>>

CallDownloadModel ==
    /\ LET r == downloadModelRequest(Ctrl)
       IN Commit(r.state) /\ Track("downloadModel", "", <<>>, r.sent)
    /\ UNCHANGED <<workerVars, audioData, nSets, transcriptVars, downloadVars>>

CallStart(a) ==
    /\ LET r == postRequest(Ctrl, a)
       IN Commit(r.state) /\ Track("start", "", a, r.sent)
    /\ UNCHANGED <<workerVars, audioData, nSets, transcriptVars, downloadVars>>

HasFile(message) == message.status \in {"progress", "initiate", "done"}

Receive(message) ==
    /\ message.status = "initiate" => Len(progressItems) < MaxItems
    /\ Handle(message)
    /\ Track(message.status, IF HasFile(message) THEN message.file ELSE "",
             <<>>, <<>>)
    /\ UNCHANGED <<workerVars, audioData, nSets, transcriptVars, downloadVars>>

\* The messages of section 6, over the given files and data.
MessagesOver(files, updates, completes) ==
    { [status |-> "progress", file |-> f, progress |-> p] :
          f \in files, p \in ProgressValues }
    \cup { InitiateMessage(f) : f \in files }
    \cup { [status |-> "done", file |-> f] : f \in files }
    \cup { [status |-> "update", data |-> d] : d \in updates }
    \cup { [status |-> "complete", data |-> d] : d \in completes }
    \cup { [status |-> st] :
              st \in {"ready", "model_ready", "model_check_complete", "error"} }

AnyAudio == {<<>>} \cup { <<b>> : b \in AudioBuffers }

\* Every setting over its whole domain; the messages over one file, with the
\* interim and the final data.
HookNext ==
    \/ \E m \in Models : CallSetModel(m)
    \/ \E d \in Dtypes : CallSetDtype(d)
    \/ \E g \in BOOLEAN : CallSetGPU(g)
    \/ \E s \in Subtasks : CallSetSubtask(s)
    \/ \E l \in Languages : CallSetLanguage(l)
    \/ CallOnInputChange
    \/ CallDownloadModel
    \/ \E a \in AnyAudio : CallStart(a)
    \/ \E message \in MessagesOver({"model.onnx"}, {PartialData}, {FinalData}) :
          Receive(message)

HookSpec == Init /\ [][HookNext]_vars

\* The same hook with the settings other than the model left at their
\* defaults, and the messages over every file and every data.
EventNext ==
    \/ \E m \in Models : CallSetModel(m)
    \/ CallOnInputChange
    \/ CallDownloadModel
    \/ \E a \in AnyAudio : CallStart(a)
    \/ \E message \in MessagesOver(Files, Datas, Datas) : Receive(message)

EventSpec == Init /\ [][EventNext]_vars

\* The Transcript component under the outputs the hook can give it: any
\* update or complete message, onInputChange, and the user's typing and keys
\* in the textarea of a chunk of the current output.

\* Texts typed: the two original texts, another text, one with blanks around
\* it, and the empty text.
TypedTexts ==
    { Hello, world, <<"W", "o", "r", "l", "d", "!">>, <<" ", "H", "i", " ">>, <<>> }
Keys == { "Escape", "Enter" }

ShowOutput(message) ==
    /\ Handle(message)
    /\ editedChunks' = overlayEffect(editedChunks, << message.data.chunks >>)
    /\ Track(message.status, "", <<>>, <<>>)
    /\ UNCHANGED <<workerVars, audioData, nSets, saved, downloadVars>>

TypeText(i, newText) ==
    /\ transcript # <<>>
    /\ i \in 0..(Len(transcript[1].chunks) - 1)
    /\ editedChunks' = handleTextChange(editedChunks, i, newText)
    /\ Track("handleTextChange", "", <<>>, <<>>)
    /\ UNCHANGED <<ctrlVars, workerVars, audioData, nSets, saved, downloadVars>>

PressKey(key, i) ==
    /\ transcript # <<>>
    /\ i \in 0..(Len(transcript[1].chunks) - 1)
    /\ editedChunks' = handleKeyDown(editedChunks, transcript, key, i)
    /\ Track(key, "", <<>>, <<>>)
    /\ UNCHANGED <<ctrlVars, workerVars, audioData, nSets, saved, downloadVars>>

OutputMessages ==
    { [status |-> st, data |-> d] : st \in {"update", "complete"}, d \in Datas }

ExportOffered_AnyOutput == transcript # <<>>

\* The export buttons are rendered when there is an output that is not busy.
ExportOffered == transcript # <<>> /\ ~transcript[1].isBusy

\* saveBlob: the file handed to the browser for download.
saveBlob(file) ==
    saved' = <<file>>

ClickExportTXT ==
    /\ ExportOffered
    /\ saveBlob(exportTXT(transcript, editedChunks))
    /\ Track("exportTXT", "", <<>>, <<>>)
    /\ UNCHANGED <<ctrlVars, workerVars, audioData, nSets, editedChunks,
                   downloadVars>>

ClickExportJSON(order) ==
    /\ ExportOffered
    /\ saveBlob(exportJSON(transcript, editedChunks, order))
    /\ Track("exportJSON", "", <<>>, <<>>)
    /\ UNCHANGED <<ctrlVars, workerVars, audioData, nSets, editedChunks,
                   downloadVars>>

ClickExportSRT ==
    /\ ExportOffered
    /\ saveBlob(exportSRT(transcript, editedChunks))
    /\ Track("exportSRT", "", <<>>, <<>>)
    /\ UNCHANGED <<ctrlVars, workerVars, audioData, nSets, editedChunks,
                   downloadVars>>

\* The Transcript component under the outputs, input changes, edits and
\* exports it can see.
TranscriptNext ==
    \/ \E message \in OutputMessages : ShowOutput(message)
    \/ CallOnInputChange
    \/ \E i \in ChunkIndices, newText \in TypedTexts : TypeText(i, newText)
    \/ \E key \in Keys, i \in ChunkIndices : PressKey(key, i)
    \/ ClickExportTXT
    \/ \E order \in KeyOrders : ClickExportJSON(order)
    \/ ClickExportSRT

TranscriptSpec == Init /\ [][TranscriptNext]_vars

\* The application without the transfers of model files (a download whose
\* files need no transfer goes from the request to ready) and without edits:
\* the settings, the download, the audio and the transcriptions.
SessionNext ==
    \/ \E m \in Models : SelectModel(m)
    \/ \E d \in Dtypes : SelectDtype(d)
    \/ \E g \in BOOLEAN : CheckGPU(g)
    \/ ClickDownload
    \/ \E b \in AudioBuffers : FileUpdate(b)
    \/ ClickTranscribe
    \/ WorkerCheckReady
    \/ WorkerCheckComplete
    \/ WorkerCheckError
    \/ WorkerReady
    \/ WorkerModelReady
    \/ WorkerDownloadError
    \/ WorkerUpdate(PartialData)
    \/ WorkerComplete(FinalData)
    \/ WorkerTranscribeError

SessionSpec == Init /\ [][SessionNext]_vars

\* The mixdown alone, over every buffer of up to MaxChannels
\* channels and MaxFrames frames (an AudioBuffer has at least one of each,
\* and all its channels have its length) over two sample values.
MixSamples == { -5, 5 }

MixBuffers ==
    UNION { { [numberOfChannels |-> c, length |-> n, channels |-> chs] :
                chs \in [1..c -> [1..n -> MixSamples]] } :
            c \in 1..MaxChannels, n \in 1..MaxFrames }

\* The application holds one of the buffers.
MixInit ==
    \E b \in MixBuffers :
        /\ transcript = <<>>
        /\ isBusy = FALSE
        /\ isModelLoading = FALSE
        /\ isModelReady = TRUE
        /\ isCheckingModel = FALSE
        /\ progressItems = <<>>
        /\ model = DefaultModel
        /\ dtype = "q8"
        /\ gpu = FALSE
        /\ subtask = "transcribe"
        /\ language = "auto"
        /\ wLoaded = << [model |-> DefaultModel, dtype |-> "q8", gpu |-> FALSE] >>
        /\ wCheck = <<>>
        /\ wDownloads = <<>>
        /\ wFiles = NoFiles
        /\ wStage = "files"
        /\ wTranscribes = <<>>
        /\ audioData = <<b>>
        /\ appAudioData = <<b>>
        /\ audioDownloadUrl = <<>>
        /\ progress = <<0>>
        /\ downloads = {}
        /\ nRuns = 0
        /\ editedChunks = [i \in {} |-> ""]
        /\ saved = <<>>
        /\ nSets = 0
        /\ last = [op |-> "onAudioDataChange", file |-> "", audio |-> <<>>,
                   ready |-> TRUE, sent |-> <<>>, pending |-> {}]

\* start is called with the buffer held.
MixStart == CallStart(audioData)

MixSpec == MixInit /\ [][MixStart]_vars

\* ------------------------------------------------------- the audio download
\* AudioManager's download of the audio at audioDownloadUrl.  A download is
\* [id, url, stage, superseded]: the effect run that started it, what it
\* fetches, whether its bytes are still being fetched or are being decoded,
\* and whether the effect's cleanup has aborted its controller.  No control
\* of AudioManager sets a URL; the setter is driven here as the component's
\* own operation.
Urls == { "a.wav", "b.wav" }

\* What decodeAudioData makes of the bytes at url.
Decoded(url) ==
    IF url = "a.wav"
    THEN [numberOfChannels |-> 1, length |-> 2, channels |-> << <<3, 4>> >>]
    ELSE [numberOfChannels |-> 2, length |-> 2, channels |-> << <<1, 2>>, <<5, 7>> >>]

\* The effect on [audioDownloadUrl, downloadAudioFromUrl], run with the URL
\* url (<<>> for undefined), the downloads ds still open and AudioManager's
\* audioData audio.  The cleanup of the run before aborts that run's
\* controller; with a URL, downloadAudioFromUrl clears audioData, puts the
\* progress at 0 and starts the request.
urlEffect(url, ds, audio) ==
    /\ IF url # <<>>
       THEN /\ audioData' = <<>>
            /\ progress' = <<0>>
            /\ nRuns' = nRuns + 1
            /\ downloads' =
                 { [r EXCEPT !.superseded = TRUE] : r \in ds }
                   \cup { [id |-> nRuns + 1, url |-> url[1], stage |-> "fetching",
                           superseded |-> FALSE] }
       ELSE /\ audioData' = audio
            /\ UNCHANGED <<progress, nRuns>>
            /\ downloads' = { [r EXCEPT !.superseded = TRUE] : r \in ds }

\* setAudioDownloadUrl(url) with another URL than the present one: the
\* component renders and the effect runs.
SetAudioDownloadUrl(url) ==
    /\ <<url>> # audioDownloadUrl
    /\ nRuns < MaxRuns
    /\ audioDownloadUrl' = <<url>>
    /\ urlEffect(<<url>>, downloads, audioData)
    /\ Track("setAudioDownloadUrl", url, <<>>, <<>>)
    /\ UNCHANGED <<ctrlVars, workerVars, nSets, transcriptVars, appAudioData>>

\* onDownloadProgress of a request that has not been aborted.
DownloadProgress(r, p) ==
    /\ r \in downloads
    /\ r.stage = "fetching"
    /\ ~r.superseded
    /\ progress' = <<p>>
    /\ Track("onDownloadProgress", r.url, <<>>, <<>>)
    /\ UNCHANGED <<ctrlVars, workerVars, audioData, nSets, transcriptVars,
                   appAudioData, audioDownloadUrl, downloads, nRuns>>

\* axios.get resolves: setAudioFromDownload is called with the bytes and
\* waits for decodeAudioData.
DownloadResolves(r) ==
    /\ r \in downloads
    /\ r.stage = "fetching"
    /\ ~r.superseded
    /\ downloads' = (downloads \ {r}) \cup { [r EXCEPT !.stage = "decoding"] }
    /\ Track("setAudioFromDownload", r.url, <<>>, <<>>)
    /\ UNCHANGED <<ctrlVars, workerVars, audioData, nSets, transcriptVars,
                   appAudioData, audioDownloadUrl, progress, nRuns>>

\* axios.get rejects, because the request failed or because its controller
\* was aborted: the catch clears the progress.
DownloadRejects(r) ==
    /\ r \in downloads
    /\ r.stage = "fetching"
    /\ downloads' = downloads \ {r}
    /\ progress' = <<>>
    /\ Track("catch", r.url, <<>>, <<>>)
    /\ UNCHANGED <<ctrlVars, workerVars, audioData, nSets, transcriptVars,
                   appAudioData, audioDownloadUrl, nRuns>>

\* decodeAudioData resolves in setAudioFromDownload: the audio is set in
\* AudioManager and, through onAudioDataChange, in App.  App renders and
\* hands AudioManager a new props object, so setAudioFromDownload and
\* downloadAudioFromUrl are made anew and the effect runs again with the URL
\* as it is.
DecodeResolves(r) ==
    /\ r \in downloads
    /\ r.stage = "decoding"
    /\ audioDownloadUrl # <<>> => nRuns < MaxRuns
    /\ appAudioData' = << Decoded(r.url) >>
    /\ urlEffect(audioDownloadUrl, downloads \ {r}, << Decoded(r.url) >>)
    /\ Track("decodeAudioData", r.url, <<>>, <<>>)
    /\ UNCHANGED <<ctrlVars, workerVars, nSets, transcriptVars, audioDownloadUrl>>

\* decodeAudioData rejects: nothing catches it.
DecodeRejects(r) ==
    /\ r \in downloads
    /\ r.stage = "decoding"
    /\ downloads' = downloads \ {r}
    /\ Track("decodeAudioData fails", r.url, <<>>, <<>>)
    /\ UNCHANGED <<ctrlVars, workerVars, audioData, nSets, transcriptVars,
                   appAudioData, audioDownloadUrl, progress, nRuns>>

UrlNext ==
    \/ \E url \in Urls : SetAudioDownloadUrl(url)
    \/ \E r \in downloads, p \in ProgressValues : DownloadProgress(r, p)
    \/ \E r \in downloads : DownloadResolves(r)
    \/ \E r \in downloads : DownloadRejects(r)
    \/ \E r \in downloads : DecodeResolves(r)
    \/ \E r \in downloads : DecodeRejects(r)

UrlSpec == Init /\ [][UrlNext]_vars

\* ------------------------------------------------------------------- claims

\* The number of items of the progress list whose file is f.
Count(items, f) == Cardinality({ i \in 1..Len(items) : items[i].file = f })

\* The id is some text followed by ".en", read off its last three characters.
IsEnglishOnlyId(id) ==
    /\ Len(id) >= 3
    /\ id[Len(id) - 2] = "."
    /\ id[Len(id) - 1] = "e"
    /\ id[Len(id)] = "n"

\* C1: whenever the controller is ready, the model the worker holds was
\* loaded for the controller's current (model, dtype, gpu).
C1_ReadyMeansLoadedForCurrentConfig ==
    isModelReady => wLoaded = << [model |-> model, dtype |-> dtype, gpu |-> gpu] >>

\* C2: a step that changes model, dtype or gpu ends with readiness false.
C2_ConfigChangeResetsReady ==
    [][(model' # model \/ dtype' # dtype \/ gpu' # gpu) => ~isModelReady']_vars

\* C2, its case: gpu was set while the controller was ready, busy and
\* loading, and readiness is now false.
C2_Witness ==
    /\ last.op = "setGPU"
    /\ last.ready
    /\ ~isModelReady
    /\ isBusy
    /\ isModelLoading

\* C3: setLanguage and setSubtask change neither readiness nor busy, loading,
\* checking, the progress items or the output.
C3_LanguageSubtaskFrame ==
    [][(\/ last'.op \in {"setLanguage", "setSubtask"}
        \/ language' # language
        \/ subtask' # subtask)
       => UNCHANGED <<isModelReady, isBusy, isModelLoading, isCheckingModel,
                      progressItems, transcript>>]_vars

\* C3, its case: the language was set away from its default in a ready
\* controller with an output and a progress item.
C3_Witness ==
    /\ last.op = "setLanguage"
    /\ language = "fr"
    /\ last.ready
    /\ isModelReady
    /\ transcript # <<>>
    /\ progressItems # <<>>

\* C4: the progress list holds at most one item for each file.
C4_OneItemPerFile ==
    \A f \in Files : Count(progressItems, f) <= 1

\* C5: a file absent from the list has exactly one item after its initiate;
\* a file with one item keeps exactly one through every step that is neither
\* its initiate nor its done; a file has no item after its done.
C5_OneItemFromInitiateToDone ==
    [][\A f \in Files :
        /\ (last'.op = "initiate" /\ last'.file = f /\ Count(progressItems, f) = 0)
              => Count(progressItems', f) = 1
        /\ (Count(progressItems, f) = 1
               /\ ~(last'.op \in {"initiate", "done"} /\ last'.file = f))
              => Count(progressItems', f) = 1
        /\ (last'.op = "done" /\ last'.file = f)
              => Count(progressItems', f) = 0]_vars

\* C5, its case: the done of one file has removed its item while the item of
\* the other file, and an output, are there.
C5_Witness ==
    /\ last.op = "done"
    /\ last.file = "config.json"
    /\ Count(progressItems, "config.json") = 0
    /\ Count(progressItems, "model.onnx") = 1
    /\ transcript # <<>>

\* C6: a progress or done message for a file without an item changes nothing
\* of the controller's state.
C6_UnknownFileIsNoOp ==
    [][(last'.op \in {"progress", "done"} /\ Count(progressItems, last'.file) = 0)
       => UNCHANGED ctrlVars]_vars

\* C6, its case: a progress message was handled for a file that has no item,
\* while the list holds the item of another file.
C6_Witness ==
    /\ last.op = "progress"
    /\ Count(progressItems, last.file) = 0
    /\ progressItems # <<>>

\* C7: start without audio changes nothing of the controller's state and
\* posts nothing.
C7_StartWithoutAudioIsNoOp ==
    [][(last'.op = "start" /\ last'.audio = <<>>)
       => (UNCHANGED ctrlVars /\ last'.sent = <<>>)]_vars

\* C7, its case: start was called without audio in an idle controller that
\* holds an output.
C7_Witness ==
    /\ last.op = "start"
    /\ last.audio = <<>>
    /\ last.sent = <<>>
    /\ transcript # <<>>
    /\ ~isBusy

\* C8: once start was called with audio, the output is absent, busy is true,
\* and exactly one request was posted: a transcribe request with the current
\* model, dtype and gpu.
C8_StartClearsAndPosts ==
    (last.op = "start" /\ last.audio # <<>>) =>
        /\ transcript = <<>>
        /\ isBusy
        /\ Len(last.sent) = 1
        /\ last.sent[1].action = "transcribe"
        /\ last.sent[1].model = model
        /\ last.sent[1].dtype = dtype
        /\ last.sent[1].gpu = gpu

\* C8, its case: start was called with audio under settings that are not the
\* defaults.
C8_Witness ==
    /\ last.op = "start"
    /\ last.audio # <<>>
    /\ Len(last.sent) = 1
    /\ isBusy
    /\ transcript = <<>>
    /\ gpu
    /\ dtype = "fp32"
    /\ model = <<"e", "n">>

\* C9: in the transcribe request, subtask is null exactly for a model id
\* ending in ".en" and is the configured subtask otherwise; language is null
\* exactly for such an id or the language "auto", and is the configured
\* language otherwise.
C9_SubtaskLanguageOfRequest ==
    (last.op = "start" /\ last.audio # <<>>) =>
        LET r == last.sent[1]
            en == IsEnglishOnlyId(model)
        IN /\ (r.subtask = <<>>) <=> en
           /\ ~en => r.subtask = <<subtask>>
           /\ (r.language = <<>>) <=> (en \/ language = "auto")
           /\ ~(en \/ language = "auto") => r.language = <<language>>

\* C9, its case: a request for an English-only model under a language and a
\* subtask that are not the defaults carries neither.
C9_Witness ==
    /\ last.op = "start"
    /\ last.audio # <<>>
    /\ IsEnglishOnlyId(model)
    /\ language = "fr"
    /\ subtask = "translate"
    /\ last.sent[1].language = <<>>
    /\ last.sent[1].subtask = <<>>

\* C10: downloadModel leaves readiness false and posts exactly one request,
\* download_model with the current model, dtype and gpu; and readiness turns
\* true only in the handling of a model_ready or ready message.
C10_DownloadResetsReady ==
    [][/\ last'.op = "downloadModel" =>
            /\ ~isModelReady'
            /\ last'.sent =
                 << [action |-> "download_model", model |-> model',
                     dtype |-> dtype', gpu |-> gpu', audio |-> <<>>,
                     subtask |-> <<>>, language |-> <<>>] >>
       /\ (~isModelReady /\ isModelReady')
            => last'.op \in {"model_ready", "ready"}]_vars

\* C10, its case: downloadModel was called in a ready controller.
C10_Witness ==
    /\ last.op = "downloadModel"
    /\ last.ready
    /\ ~isModelReady
    /\ Len(last.sent) = 1

\* C11: once an error message was handled, busy, model-loading and checking
\* are all false.
C11_ErrorClearsFlags ==
    last.op = "error" => (~isBusy /\ ~isModelLoading /\ ~isCheckingModel)

\* C11, its case: an error was handled in a ready controller that holds an
\* interim output (installed with busy true) and a progress item.
C11_Witness ==
    /\ last.op = "error"
    /\ last.ready
    /\ transcript # <<>>
    /\ transcript[1].isBusy
    /\ progressItems # <<>>
    /\ ~isBusy
    /\ ~isModelLoading
    /\ ~isCheckingModel

\* C12: the handling of an error message leaves the output, the progress
\* list and the configuration as they were.
C12_ErrorFrame ==
    [][last'.op = "error"
       => UNCHANGED <<transcript, progressItems, model, dtype, gpu, subtask,
                      language>>]_vars

\* C12, its case: an error was handled with a final output, two progress
\* items and a model other than the default in place.
C12_Witness ==
    /\ last.op = "error"
    /\ transcript # <<>>
    /\ ~transcript[1].isBusy
    /\ Len(progressItems) = 2
    /\ model # DefaultModel

\* The output an update (busy) or complete (not busy) message with data d calls for.
OutputOf(d, busy) ==
    << [isBusy |-> busy, text |-> d.text, tps |-> d.tps, chunks |-> d.chunks] >>

\* C13: in every state, an update message with data d gives the output made
\* of d's text, chunks and tps with isBusy true, and busy true; a complete
\* message gives the same with isBusy false, and busy false; and the state
\* after such a message holds exactly such an output.
C13_UpdateCompleteReplaceOutput ==
    /\ \A d \in Datas :
          LET u == onMessage(Ctrl, [status |-> "update", data |-> d])
              k == onMessage(Ctrl, [status |-> "complete", data |-> d])
          IN /\ u.transcript = OutputOf(d, TRUE)
             /\ u.isBusy = TRUE
             /\ k.transcript = OutputOf(d, FALSE)
             /\ k.isBusy = FALSE
    /\ last.op \in {"update", "complete"} =>
          /\ isBusy = (last.op = "update")
          /\ \E d \in Datas : transcript = OutputOf(d, last.op = "update")

\* C13, its case: a complete message with the shorter chunk list was handled.
C13_Witness ==
    /\ last.op = "complete"
    /\ transcript = OutputOf(PartialData, FALSE)
    /\ ~isBusy

\* C14: onInputChange leaves the output absent and busy, model-loading,
\* readiness, checking, the progress list and the configuration unchanged.
C14_InputChangeClearsOutputOnly ==
    [][last'.op = "onInputChange"
       => /\ transcript' = <<>>
          /\ UNCHANGED <<isBusy, isModelLoading, isModelReady, isCheckingModel,
                         progressItems, model, dtype, gpu, subtask, language>>]_vars

\* C14, its case: onInputChange was called in a busy, loading and ready
\* controller with a progress item; the output is absent and the rest is there.
C14_Witness ==
    /\ last.op = "onInputChange"
    /\ transcript = <<>>
    /\ isBusy
    /\ isModelLoading
    /\ isModelReady
    /\ progressItems # <<>>

\* C15: the output is cleared by every step that replaces the input audio,
\* and every output installed afterwards is the result of the request the
\* worker is working on having been made on the input that is current; so no
\* output of a previous input stands beside the new input.
C15_NoStaleOutput ==
    [][/\ audioData' # audioData => transcript' = <<>>
       /\ (transcript' # <<>> /\ transcript' # transcript)
            => /\ wTranscribes # <<>>
               /\ audioData' # <<>>
               /\ Head(wTranscribes) = Mixdown(audioData'[1])]_vars

\* C16: the worker holds at most one unanswered transcribe request: none is
\* sent between a start with audio and the complete or error that ends it.
C16_OneTranscriptionInFlight ==
    Len(wTranscribes) <= 1

\* C17: the handling of model_ready ends ready and not checking; the handling
\* of model_check_complete ends not checking, with readiness as it was.
C17_CheckAnswers ==
    [][/\ last'.op = "model_ready" => (isModelReady' /\ ~isCheckingModel')
       /\ last'.op = "model_check_complete"
            => (~isCheckingModel' /\ isModelReady' = isModelReady)]_vars

\* C17, its case: model_check_complete was handled by a controller that was
\* not ready, and it is neither checking nor ready.
C17_Witness ==
    /\ last.op = "model_check_complete"
    /\ ~last.ready
    /\ ~isModelReady
    /\ ~isCheckingModel

\* C18: whether the check fails or is never answered, the controller comes
\* to the download view (not checking, not ready), unless the worker has
\* answered that it holds the model.
C18_CheckEventuallyEnds ==
    <>(View = "download" \/ wLoaded # <<>>)

\* C19: in every state, handling any message twice in a row gives the state
\* that handling it once gives.
C19_EveryEventIdempotent ==
    \A message \in MessagesOver(Files, Datas, Datas) :
        onMessage(onMessage(Ctrl, message), message) = onMessage(Ctrl, message)

\* C20: every index of the edit overlay is an index of a chunk of the
\* current output; with the output absent there is no such index.
C20_OverlayIndicesValid ==
    \A i \in DOMAIN editedChunks :
        /\ transcript # <<>>
        /\ i \in 0..(Len(transcript[1].chunks) - 1)

\* The indices of the chunks now shown.
ShownIndices == 0..(Len(chunksOf(transcript)) - 1)

\* C21: right after an update or complete message has installed a chunk
\* list, the overlay holds exactly the indices of that list, every chunk's
\* effective text is its original text and no chunk counts as edited,
\* whatever edits the overlay held before.
C21_NewChunksResetOverlay ==
    last.op \in {"update", "complete"} =>
        /\ transcript # <<>>
        /\ DOMAIN editedChunks = ShownIndices
        /\ \A i \in ShownIndices :
              /\ getChunkText(editedChunks, transcript, i) = originalText(transcript, i)
              /\ ~isChunkEdited(editedChunks, transcript, i)

\* A complete message has just installed the two chunks, after a file with
\* the second chunk edited to "World!" had been exported: the edit existed
\* and is gone.
C21_Witness ==
    /\ last.op = "complete"
    /\ chunksOf(transcript) = ChunksA
    /\ saved # <<>>
    /\ saved[1].filename = "transcript.txt"
    /\ saved[1].content = Hello \o <<"W", "o", "r", "l", "d", "!">>
    /\ getChunkText(editedChunks, transcript, 1) = world

\* C22: in every state with an output, for every chunk index i and every
\* text t: typing t into chunk i makes the chunk edited exactly when t is not
\* its original text, and Escape on chunk i afterwards makes it not edited,
\* its text the original one, and leaves every other override as it was.
C22_EditRoundTrip ==
    transcript # <<>> =>
        \A i \in ShownIndices :
          \A t \in TypedTexts \cup {originalText(transcript, i)} :
            LET typed == handleTextChange(editedChunks, i, t)
                escaped == handleKeyDown(typed, transcript, "Escape", i)
            IN /\ isChunkEdited(typed, transcript, i) = (t # originalText(transcript, i))
               /\ ~isChunkEdited(escaped, transcript, i)
               /\ getChunkText(escaped, transcript, i) = originalText(transcript, i)
               /\ DOMAIN escaped = DOMAIN typed
               /\ \A j \in (DOMAIN typed) \ {i} : escaped[j] = typed[j]

\* Escape has just been pressed in one chunk, which is not edited, while
\* another chunk still is.
C22_Witness ==
    /\ last.op = "Escape"
    /\ transcript # <<>>
    /\ \E i, j \in ShownIndices :
          /\ i # j
          /\ ~isChunkEdited(editedChunks, transcript, i)
          /\ isChunkEdited(editedChunks, transcript, j)

\* C23: a step that performs an export starts in a state where an output is
\* present and its isBusy is false; with no output, or with the interim
\* output of an update, no export step exists.
C23_ExportOnlyOfFinalOutput ==
    [][last'.op \in {"exportTXT", "exportJSON", "exportSRT"} =>
          /\ transcript # <<>>
          /\ ~transcript[1].isBusy
          /\ transcript' = transcript]_vars

\* A file has just been exported from the final output of two chunks.
C23_Witness ==
    /\ last.op = "exportJSON"
    /\ saved # <<>>
    /\ saved[1].filename = "transcript.json"
    /\ transcript # <<>>
    /\ ~transcript[1].isBusy
    /\ chunksOf(transcript) = ChunksA

\* The cue of section 4.5 for a cue number, a start, an end and a text.
C24_Cue(number, start, end, text) ==
    Digits(number) \o <<"\n">>
      \o formatSrtTime(start) \o <<" ", "-", "-", ">", " ">> \o formatSrtTime(end)
      \o <<"\n">> \o text \o <<"\n", "\n">>

\* C24: the SRT file just exported is one cue per chunk in chunk order, the
\* cue of chunk i (from 0) numbered i + 1, starting at timestamp[0], ending
\* at timestamp[1] or, when that is null, at timestamp[0], with the chunk's
\* effective text.
RECURSIVE C24_Cues(_)
C24_Cues(i) ==
    IF i > Len(chunksOf(transcript)) THEN <<>>
    ELSE LET timestamp == chunksOf(transcript)[i].timestamp
             text == IF (i - 1) \in DOMAIN editedChunks
                     THEN editedChunks[i - 1]
                     ELSE chunksOf(transcript)[i].text
         IN C24_Cue(i, timestamp[1],
                    IF timestamp[2] = <<>> THEN timestamp[1] ELSE timestamp[2][1],
                    text)
              \o C24_Cues(i + 1)

C24_SrtCues ==
    last.op = "exportSRT" =>
        /\ saved # <<>>
        /\ saved[1].filename = "transcript.srt"
        /\ saved[1].type = "text/plain"
        /\ saved[1].content = C24_Cues(1)

\* The scenario of section 8: Hello [0, 1.5] and world [1.5, null], no edits.
C24_Scenario ==
    <<"1", "\n", "0", "0", ":", "0", "0", ":", "0", "0", ",", "0", "0", "0",
      " ", "-", "-", ">", " ", "0", "0", ":", "0", "0", ":", "0", "1", ",",
      "5", "0", "0", "\n", "H", "e", "l", "l", "o", "\n", "\n", "2", "\n",
      "0", "0", ":", "0", "0", ":", "0", "1", ",", "5", "0", "0", " ", "-",
      "-", ">", " ", "0", "0", ":", "0", "0", ":", "0", "1", ",", "5", "0",
      "0", "\n", "w", "o", "r", "l", "d", "\n", "\n">>

C24_Witness ==
    /\ last.op = "exportSRT"
    /\ chunksOf(transcript) = ChunksA
    /\ \A i \in ShownIndices : ~isChunkEdited(editedChunks, transcript, i)
    /\ saved # <<>>
    /\ saved[1].content = C24_Scenario

\* The effective texts from chunk i (from 1) on, one after the other.
RECURSIVE C25_Concat(_)
C25_Concat(i) ==
    IF i > Len(chunksOf(transcript)) THEN <<>>
    ELSE (IF (i - 1) \in DOMAIN editedChunks
          THEN editedChunks[i - 1]
          ELSE chunksOf(transcript)[i].text) \o C25_Concat(i + 1)

\* C25: the TXT file just exported is the effective texts of the chunks one
\* after the other with nothing between them, less the whitespace at both
\* ends: it neither starts nor ends with whitespace, and whitespace before
\* and after it makes the concatenation.  For Hello and world unedited it is
\* Helloworld.
C25_TxtIsTrimmedConcatenation ==
    last.op = "exportTXT" =>
        /\ saved # <<>>
        /\ saved[1].filename = "transcript.txt"
        /\ saved[1].type = "text/plain"
        /\ LET content == saved[1].content
               all == C25_Concat(1)
           IN /\ content # <<>> =>
                    /\ content[1] \notin {" ", "\n", "\t"}
                    /\ content[Len(content)] \notin {" ", "\n", "\t"}
              /\ \E before, after \in 0..Len(all) :
                    /\ before + Len(content) + after = Len(all)
                    /\ \A p \in 1..before : all[p] \in {" ", "\n", "\t"}
                    /\ \A p \in 1..Len(content) : all[before + p] = content[p]
                    /\ \A p \in 1..after :
                          all[before + Len(content) + p] \in {" ", "\n", "\t"}
              /\ (/\ chunksOf(transcript) = ChunksA
                  /\ \A i \in ShownIndices : ~isChunkEdited(editedChunks, transcript, i))
                   => content = <<"H", "e", "l", "l", "o", "w", "o", "r", "l", "d">>

\* The two chunks have just been exported unedited as Helloworld.
C25_Witness ==
    /\ last.op = "exportTXT"
    /\ chunksOf(transcript) = ChunksA
    /\ \A i \in ShownIndices : ~isChunkEdited(editedChunks, transcript, i)
    /\ saved # <<>>
    /\ saved[1].content = <<"H", "e", "l", "l", "o", "w", "o", "r", "l", "d">>

\* The text sub occurs in the text s.
C26_Contains(s, sub) ==
    \E p \in 1..(Len(s) - Len(sub) + 1) : SubSeq(s, p, p + Len(sub) - 1) = sub

\* The scenario of section 8: Hello [0, 1.5] and world [1.5, null] with the
\* second chunk edited to World!, just exported as JSON.
C26_ScenarioExported ==
    /\ last.op = "exportJSON"
    /\ chunksOf(transcript) = ChunksA
    /\ getChunkText(editedChunks, transcript, 0) = Hello
    /\ getChunkText(editedChunks, transcript, 1) = <<"W", "o", "r", "l", "d", "!">>
    /\ saved # <<>>

C26_TextLine ==
    <<" ", " ", " ", " ", "\"", "t", "e", "x", "t", "\"", ":", " ", "\"",
      "W", "o", "r", "l", "d", "!", "\"">>

C26_StartAsEndLine ==
    <<" ", " ", " ", " ", "\"", "t", "i", "m", "e", "s", "t", "a", "m", "p",
      "\"", ":", " ", "[", "1", ".", "5", " ", "1", ".", "5", "]">>

\* C26 as stated: the exported array's second element has the text World!
\* and its timestamp on one line as [1.5 1.5], the open end exported as the
\* start.
C26_OpenEndExportedAsStart ==
    C26_ScenarioExported =>
        /\ C26_Contains(saved[1].content, C26_TextLine)
        /\ C26_Contains(saved[1].content, C26_StartAsEndLine)

C26_TimestampFirst ==
    <<"[", "\n", " ", " ", "{", "\n", " ", " ", " ", " ", "\"", "t", "i",
      "m", "e", "s", "t", "a", "m", "p", "\"", ":", " ", "[", "0", ",", " ",
      "1", ".", "5", "]", ",", "\n", " ", " ", " ", " ", "\"", "t", "e",
      "x", "t", "\"", ":", " ", "\"", "H", "e", "l", "l", "o", "\"", "\n",
      " ", " ", "}", ",", "\n", " ", " ", "{", "\n", " ", " ", " ", " ",
      "\"", "t", "i", "m", "e", "s", "t", "a", "m", "p", "\"", ":", " ",
      "[", "1", ".", "5", ",", " ", "n", "u", "l", "l", "]", ",", "\n", " ",
      " ", " ", " ", "\"", "t", "e", "x", "t", "\"", ":", " ", "\"", "W",
      "o", "r", "l", "d", "!", "\"", "\n", " ", " ", "}", "\n", "]">>

C26_TextFirst ==
    <<"[", "\n", " ", " ", "{", "\n", " ", " ", " ", " ", "\"", "t", "e",
      "x", "t", "\"", ":", " ", "\"", "H", "e", "l", "l", "o", "\"", ",",
      "\n", " ", " ", " ", " ", "\"", "t", "i", "m", "e", "s", "t", "a",
      "m", "p", "\"", ":", " ", "[", "0", ",", " ", "1", ".", "5", "]",
      "\n", " ", " ", "}", ",", "\n", " ", " ", "{", "\n", " ", " ", " ",
      " ", "\"", "t", "e", "x", "t", "\"", ":", " ", "\"", "W", "o", "r",
      "l", "d", "!", "\"", ",", "\n", " ", " ", " ", " ", "\"", "t", "i",
      "m", "e", "s", "t", "a", "m", "p", "\"", ":", " ", "[", "1", ".", "5",
      ",", " ", "n", "u", "l", "l", "]", "\n", " ", " ", "}", "\n", "]">>

\* C26 amended: the exported file is the pretty-printed array of the two
\* chunks with each timestamp on one line; its second element has the text
\* World! and the timestamp [1.5, null], the open end exported as null.
C26_OpenEndExportedAsNull ==
    C26_ScenarioExported =>
        /\ saved[1].filename = "transcript.json"
        /\ saved[1].type = "application/json"
        /\ saved[1].content \in {C26_TimestampFirst, C26_TextFirst}

C26_Witness ==
    /\ C26_ScenarioExported
    /\ saved[1].content = C26_TimestampFirst

\* The buffer start was just called with, and the samples of the request
\* it posted.
StartedBuffer == last.audio[1]
SentSamples == last.sent[1].audio[1]

\* C27 as stated: for a buffer of two channels the samples sent are as many
\* as each channel has, and sample i is the double
\* Math.sqrt(2) * (L[i] + R[i]) / 2 itself.
C27_StereoIsScaledSum ==
    (last.op = "start" /\ last.audio # <<>> /\ StartedBuffer.numberOfChannels = 2) =>
        /\ Len(SentSamples) = Len(StartedBuffer.channels[1])
        /\ Len(SentSamples) = Len(StartedBuffer.channels[2])
        /\ \A i \in 1..Len(SentSamples) :
              SentSamples[i] =
                Canonical(Half(Scaled(StartedBuffer.channels[1][i]
                                        + StartedBuffer.channels[2][i])))

\* The two numbers of 24 significant bits that the double v lies between
\* (both v when v is one).
C27_Neighbours(v) ==
    IF BitLength(v.sig) <= 24 THEN { Canonical(v) }
    ELSE LET n == BitLength(v.sig) - 24
             below == ShiftRight(v.sig, n)
         IN { Canonical([v EXCEPT !.sig = below, !.exp = v.exp + n]),
              Canonical([v EXCEPT !.sig = Increment(below), !.exp = v.exp + n]) }

\* C27 amended: for a buffer of two channels the samples sent are as many
\* as each channel has, and sample i is a single-precision number next to
\* the double Math.sqrt(2) * (L[i] + R[i]) / 2: the value rounded into the
\* Float32Array, not the value itself.
C27_StereoIsRoundedScaledSum ==
    (last.op = "start" /\ last.audio # <<>> /\ StartedBuffer.numberOfChannels = 2) =>
        /\ Len(SentSamples) = Len(StartedBuffer.channels[1])
        /\ Len(SentSamples) = Len(StartedBuffer.channels[2])
        /\ \A i \in 1..Len(SentSamples) :
              /\ BitLength(SentSamples[i].sig) <= 24
              /\ SentSamples[i] \in
                   C27_Neighbours(Half(Scaled(StartedBuffer.channels[1][i]
                                                + StartedBuffer.channels[2][i])))

\* start has been called with a stereo buffer of two frames whose first
\* frame sums to 10 eighths and whose second sums to zero: the first sample
\* sent is not the double, the second is.
C27_Witness ==
    /\ last.op = "start"
    /\ last.audio # <<>>
    /\ StartedBuffer.numberOfChannels = 2
    /\ StartedBuffer.channels = << <<5, -5>>, <<5, 5>> >>
    /\ Len(SentSamples) = 2
    /\ SentSamples[1] # Canonical(Half(Scaled(10)))
    /\ SentSamples[2] = Sample(0)

\* C28: for a buffer of one channel, or of more than two, the samples sent
\* are those of channel 0, as many as the buffer has frames.
C28_FirstChannelVerbatim ==
    (last.op = "start" /\ last.audio # <<>> /\ StartedBuffer.numberOfChannels # 2) =>
        /\ Len(SentSamples) = StartedBuffer.length
        /\ \A i \in 1..Len(SentSamples) :
              SentSamples[i] = Sample(StartedBuffer.channels[1][i])

\* start has been called with a buffer of three channels that differ.
C28_Witness ==
    /\ last.op = "start"
    /\ last.audio # <<>>
    /\ StartedBuffer.numberOfChannels = 3
    /\ StartedBuffer.channels = << <<5, -5>>, <<-5, -5>>, <<-5, 5>> >>
    /\ SentSamples = << Sample(5), Sample(-5) >>

C30_Dispatch == Len(wTranscribes') > Len(wTranscribes)

\* The worker's complete message for the request at the head is handled in
\* the step.
C30_Complete ==
    /\ Len(wTranscribes') < Len(wTranscribes)
    /\ transcript' = OutputOf(FinalData, FALSE)
    /\ ~isBusy'

C31_FilesListed == { progressItems[i].file : i \in 1..Len(progressItems) }

\* C31: the progress list is empty exactly when no file has had an initiate
\* handled without a done handled since; more, the files of its items are
\* exactly those files, under any order of the messages of any files.
C31_EmptyIffNothingOutstanding ==
    /\ progressItems = <<>> <=> last.pending = {}
    /\ C31_FilesListed = last.pending

\* C31, its case: the done of the last outstanding file has just been handled
\* and the list is empty, during a load and with an output shown.
C31_Witness ==
    /\ last.op = "done"
    /\ last.pending = {}
    /\ progressItems = <<>>
    /\ transcript # <<>>
    /\ isModelLoading

\* ------------------------------------------------------------------- C32

\* C32: a progress message for file F leaves the length and the order of the
\* list as they were, leaves every item of another file as it was, changes
\* nothing but the progress field of an item of F (its file, name, status,
\* loaded and total stay), and leaves the rest of the controller's state.
C32_ProgressFrame ==
    [][last'.op = "progress" =>
        /\ Len(progressItems') = Len(progressItems)
        /\ \A i \in 1..Len(progressItems) :
              IF progressItems[i].file = last'.file
              THEN /\ progressItems'[i].progress \in { <<p>> : p \in ProgressValues }
                   /\ progressItems'[i] =
                         [progressItems[i] EXCEPT
                             !.progress = progressItems'[i].progress]
              ELSE progressItems'[i] = progressItems[i]
        /\ UNCHANGED <<transcript, isBusy, isModelLoading, isModelReady,
                       isCheckingModel, model, dtype, gpu, subtask, language>>]_vars

\* C32, its case: a progress message was handled for the second of two items
\* of different files; it carries the progress and the first does not.
C32_Witness ==
    /\ last.op = "progress"
    /\ Len(progressItems) = 2
    /\ progressItems[1].file # progressItems[2].file
    /\ progressItems[2].file = last.file
    /\ progressItems[2].progress # <<>>
    /\ progressItems[2].status = "initiate"
    /\ progressItems[1].progress = <<>>

\* ------------------------------------------------------------------- C33

\* The state after the mount: checking and nothing else, and one request
\* posted, check_model with the model, dtype and gpu of that state.
C33_Start ==
    /\ isCheckingModel = TRUE
    /\ ~isModelReady
    /\ ~isBusy
    /\ ~isModelLoading
    /\ progressItems = <<>>
    /\ transcript = <<>>
    /\ last.op = "mount"
    /\ Len(last.sent) = 1
    /\ last.sent[1].action = "check_model"
    /\ last.sent[1].model = model
    /\ last.sent[1].dtype = dtype
    /\ last.sent[1].gpu = gpu

\* C33: the session starts in CheckingModel with exactly one check_model
\* request posted, carrying the initial model, dtype and gpu; no later
\* operation and no message posts another check_model request.
C33_OneCheckAtStart ==
    /\ C33_Start
    /\ [][\A i \in 1..Len(last'.sent) : last'.sent[i].action # "check_model"]_vars

\* C33, its case: after the check was answered the gpu setting was changed,
\* away from the value the check was sent with, and nothing was posted.
C33_Witness ==
    /\ last.op = "setGPU"
    /\ gpu
    /\ last.sent = <<>>
    /\ ~isCheckingModel

\* ------------------------------------------------------------------- C34

\* C34: whenever an output is present, its isBusy field equals the
\* controller's busy flag.
C34_OutputBusyMatchesController ==
    transcript # <<>> => transcript[1].isBusy = isBusy

\* ------------------------------------------------------------------- C35

\* C35: a step that takes the readiness from false to true is the handling
\* of a model_ready message; no other message and no operation of the hook
\* does it.
C35_ReadyOnlyByModelReady ==
    [][(~isModelReady /\ isModelReady') => last'.op = "model_ready"]_vars

\* C35, its case: a model_ready message found the readiness false, during a
\* load with an item in the list, and set it.
C35_Witness ==
    /\ last.op = "model_ready"
    /\ ~last.ready
    /\ isModelReady
    /\ progressItems # <<>>
    /\ model # DefaultModel

\* ------------------------------------------------------------------- C36

\* A download is in progress: a download_model request is with the worker and
\* neither ready, model_ready nor error has ended it.
C36_Downloading == wDownloads # <<>> /\ wStage = "files"

\* The download button is rendered and enabled.
C36_ControlEnabled == View = "download" /\ ~isModelLoading

\* C36: while a model download is in progress the download control cannot
\* issue a second download_model request: it is not rendered or is disabled,
\* from the call on and not only from the first initiate.
C36_NoSecondDownloadWhileDownloading ==
    C36_Downloading => ~C36_ControlEnabled

\* ------------------------------------------------------------------- C37

\* C37: the checking flag is true at the start and, once false, stays false
\* through every message and every operation.
C37_CheckingIsMonotone ==
    /\ isCheckingModel = TRUE
    /\ [][~isCheckingModel => ~isCheckingModel']_vars

\* C37, its case: the check is over, and a change of the model has since
\* found the model ready and reset the readiness; the checking flag is still
\* false.
C37_Witness ==
    /\ last.op = "setModel"
    /\ last.ready
    /\ ~isModelReady
    /\ ~isCheckingModel

====
